---- MODULE Spec2Model ----
(***************************************************************************)
(* Model of SistemaGestion (src/C++/main final.cpp): an in-memory ledger   *)
(* of four std::list sequences (inventario, solicitudes, clientesEnEspera, *)
(* historialCambios) driven by the menu loop of main().  One action per    *)
(* case of the switch; each action is one whole iteration of the do-while  *)
(* loop: the option is read, the inputs are read, the method runs.         *)
(*                                                                         *)
(* Strings that are compared by order (product names) are sequences of     *)
(* character codes, compared as std::string::operator< compares them.      *)
(* A printed line is a tuple: the fixed text, then the values streamed.    *)
(***************************************************************************)
EXTENDS Integers, Sequences, FiniteSets, TLC

\* ---------------------------------------------------------------- bounds
\* The session's budget of records: options 1, 2, 5 and 9 are selected only
\* while the entries of historialCambios, the requests registered so far and
\* the clients registered so far number fewer than this.
MaxRegistros == 3

\* ---------------------------------------------------------------- inputs
\* Product names typed at the prompt: "a" and "Ab" as character codes.
Nombres == { <<97>>, <<65, 98>> }
Precios == { 10, 20 }
Cantidades == { 1 }
\* Products typed at the prompt: "a" at both prices, "Ab" at one.
ProductosEntrada ==
    { p \in [nombre : Nombres, precio : Precios, cantidad : Cantidades] :
         p.nombre = <<97>> \/ p.precio = 10 }
Descripciones == { "d1", "d2" }
NombresCliente == { "c1", "c2" }
\* Solicitud::id and Cliente::id are never assigned (main, lines 260 and
\* 277): the value copied into the list is indeterminate.
IdIndeterminado == { 0, 1 }
\* Menu selections that match no case label.
OpcionesNoValidas == { -1, 14 }

VARIABLES
    inventario,        \* std::list<Producto>
    solicitudes,       \* std::list<Solicitud>
    clientesEnEspera,  \* std::list<Cliente>
    historialCambios,  \* std::list<Cambio>
    opcion,            \* main's opcion: the last selection read (0: none yet)
    salida,            \* lines the last iteration's method wrote to std::cout
    entrada,           \* history: what the last iteration read after the option
    previo,            \* history: the four lists before the last iteration
    anterior,          \* history: tipo of the Cambio the iteration before the last
                       \* appended to historialCambios ("ninguno": it appended none)
    origen,            \* history: for each entry of historialCambios, the option
                       \* whose iteration appended it
    registradas,       \* history: every Solicitud registered, in order
    procesadas,        \* history: descriptions reported by procesarSolicitud, in order
    clientesRegistrados, \* history: every Cliente registered, in order
    atendidos,         \* history: names reported by atenderCliente, in order
    copia              \* a second ledger given the same inputs, whose listing
                       \* sorts a copy: its inventario, historialCambios and
                       \* the lines its last method printed

listas == <<inventario, solicitudes, clientesEnEspera, historialCambios>>
colasHist == <<registradas, procesadas, clientesRegistrados, atendidos>>
vars == <<inventario, solicitudes, clientesEnEspera, historialCambios,
          opcion, salida, entrada, previo, anterior, origen,
          registradas, procesadas, clientesRegistrados, atendidos, copia>>

\* ------------------------------------------------------- library helpers
\* std::string::operator< : lexicographic on character codes, a proper
\* prefix is smaller.
RECURSIVE StrLess(_, _)
StrLess(s, t) ==
    IF t = <<>> THEN FALSE
    ELSE IF s = <<>> THEN TRUE
    ELSE IF Head(s) < Head(t) THEN TRUE
    ELSE IF Head(t) < Head(s) THEN FALSE
    ELSE StrLess(Tail(s), Tail(t))

\* Variant of MenorPorNombre: the operands of the comparison swapped.
MenorPorNombreInvertido(a, b) == StrLess(b.nombre, a.nombre)

\* The comparator handed to inventario.sort.
MenorPorNombre(a, b) == StrLess(a.nombre, b.nombre)

\* Variant of FindIf: a search that fails stops on the last element instead
\* of end().
FindIfUltimoPorFin(inv, nombre) ==
    IF \E i \in 1..Len(inv) : inv[i].nombre = nombre
    THEN CHOOSE i \in 1..Len(inv) :
            /\ inv[i].nombre = nombre
            /\ \A j \in 1..(i - 1) : inv[j].nombre # nombre
    ELSE IF inv = <<>> THEN 1 ELSE Len(inv)

\* Variant of FindIf: the position of the last match.
FindIfUltimaCoincidencia(inv, nombre) ==
    IF \E i \in 1..Len(inv) : inv[i].nombre = nombre
    THEN CHOOSE i \in 1..Len(inv) :
            /\ inv[i].nombre = nombre
            /\ \A j \in (i + 1)..Len(inv) : inv[j].nombre # nombre
    ELSE Len(inv) + 1

\* std::find_if with the predicate p.nombre == nombre: the position of the
\* first match, Len(inv) + 1 standing for end().
FindIf(inv, nombre) ==
    IF \E i \in 1..Len(inv) : inv[i].nombre = nombre
    THEN CHOOSE i \in 1..Len(inv) :
            /\ inv[i].nombre = nombre
            /\ \A j \in 1..(i - 1) : inv[j].nombre # nombre
    ELSE Len(inv) + 1

\* std::list::erase(it)
Erase(s, i) == [k \in 1..(Len(s) - 1) |-> IF k < i THEN s[k] ELSE s[k + 1]]

\* Variants of PopFront and PopBack: the other end is dropped.
PopFrontQuitaUltimo(s) == SubSeq(s, 1, Len(s) - 1)
PopBackQuitaPrimero(s) == Tail(s)

\* std::list::pop_front / pop_back
PopFront(s) == Tail(s)
PopBack(s) == SubSeq(s, 1, Len(s) - 1)

\* Variant of InsertarOrdenado: x goes before the elements equal to it.
RECURSIVE InsertarOrdenadoAntesDeIguales(_, _)
InsertarOrdenadoAntesDeIguales(s, x) ==
    IF s = <<>> THEN <<x>>
    ELSE IF ~MenorPorNombre(Head(s), x) THEN <<x>> \o s
    ELSE <<Head(s)>> \o InsertarOrdenadoAntesDeIguales(Tail(s), x)

\* Insertion of x into a sorted sequence after every element not greater
\* than it: the merge step of a stable sort.
RECURSIVE InsertarOrdenado(_, _)
InsertarOrdenado(s, x) ==
    IF s = <<>> THEN <<x>>
    ELSE IF MenorPorNombre(x, Head(s)) THEN <<x>> \o s
    ELSE <<Head(s)>> \o InsertarOrdenado(Tail(s), x)

\* std::list::sort(comp): stable, ascending by comp.
RECURSIVE ListSort(_)
ListSort(s) ==
    IF s = <<>> THEN <<>>
    ELSE InsertarOrdenado(ListSort(SubSeq(s, 1, Len(s) - 1)), s[Len(s)])

\* The line printed for one product by consultarProducto / listarProductos.
LineaProducto(p) == <<"Producto", p.nombre, p.precio, p.cantidad>>

\* ------------------------------------------------- SistemaGestion methods
\* Each method is an operator from the lists it touches to their new
\* values and the lines it prints.

\* Variant of registrarProducto: the registration is not logged.
registrarProductoSinRegistro(inv, hist, producto) ==
    [inventario |-> Append(inv, producto),
     historialCambios |-> hist,
     salida |-> << <<"Producto agregado", producto.nombre>> >>]

\* Variant of registrarProducto: a product whose nombre is already in the
\* inventory is rejected.
registrarProductoSinDuplicados(inv, hist, producto) ==
    IF \E i \in 1..Len(inv) : inv[i].nombre = producto.nombre
    THEN [inventario |-> inv, historialCambios |-> hist, salida |-> <<>>]
    ELSE [inventario |-> Append(inv, producto),
          historialCambios |-> Append(hist, [tipo |-> "agregar", producto |-> producto]),
          salida |-> << <<"Producto agregado", producto.nombre>> >>]

registrarProducto(inv, hist, producto) ==
    [inventario |-> Append(inv, producto),
     historialCambios |-> Append(hist, [tipo |-> "agregar", producto |-> producto]),
     salida |-> << <<"Producto agregado", producto.nombre>> >>]

\* Variant of eliminarProducto: the removal is not logged.
eliminarProductoSinRegistro(inv, hist, nombreProducto) ==
    LET it == FindIf(inv, nombreProducto) IN
    IF it # Len(inv) + 1
    THEN [inventario |-> Erase(inv, it),
          historialCambios |-> hist,
          salida |-> << <<"Producto eliminado", nombreProducto>> >>]
    ELSE [inventario |-> inv,
          historialCambios |-> hist,
          salida |-> << <<"Producto no encontrado.">> >>]

\* Variant of eliminarProducto: the removal is logged with tipo "agregar".
eliminarProductoTipoAgregar(inv, hist, nombreProducto) ==
    LET it == FindIf(inv, nombreProducto) IN
    IF it # Len(inv) + 1
    THEN [inventario |-> Erase(inv, it),
          historialCambios |-> Append(hist, [tipo |-> "agregar", producto |-> inv[it]]),
          salida |-> << <<"Producto eliminado", nombreProducto>> >>]
    ELSE [inventario |-> inv,
          historialCambios |-> hist,
          salida |-> << <<"Producto no encontrado.">> >>]

eliminarProducto(inv, hist, nombreProducto) ==
    LET it == FindIf(inv, nombreProducto) IN
    IF it # Len(inv) + 1
    THEN [inventario |-> Erase(inv, it),
          historialCambios |-> Append(hist, [tipo |-> "eliminar", producto |-> inv[it]]),
          salida |-> << <<"Producto eliminado", nombreProducto>> >>]
    ELSE [inventario |-> inv,
          historialCambios |-> hist,
          salida |-> << <<"Producto no encontrado.">> >>]

consultarProducto(inv, nombreProducto) ==
    LET it == FindIf(inv, nombreProducto) IN
    IF it # Len(inv) + 1
    THEN << LineaProducto(inv[it]) >>
    ELSE << <<"Producto no encontrado.">> >>

\* The listing of the second ledger: a copy of the list is sorted and
\* printed, the stored list is left as it is.
listarProductosCopia(inv) ==
    LET ordenado == ListSort(inv) IN
    [inventario |-> inv,
     salida |-> [k \in 1..Len(ordenado) |-> LineaProducto(ordenado[k])]]

\* Variant of listarProductos: a copy is sorted and printed, the stored list
\* keeps its order.
listarProductosSinGuardar(inv) ==
    LET ordenado == ListSort(inv) IN
    [inventario |-> inv,
     salida |-> [k \in 1..Len(ordenado) |-> LineaProducto(ordenado[k])]]

listarProductos(inv) ==
    LET ordenado == ListSort(inv) IN
    [inventario |-> ordenado,
     salida |-> [k \in 1..Len(ordenado) |-> LineaProducto(ordenado[k])]]

\* Variant of registrarSolicitud: push_front instead of push_back.
registrarSolicitudAlFrente(sols, solicitud) ==
    [solicitudes |-> <<solicitud>> \o sols,
     salida |-> << <<"Solicitud registrada", solicitud.descripcion>> >>]

registrarSolicitud(sols, solicitud) ==
    [solicitudes |-> Append(sols, solicitud),
     salida |-> << <<"Solicitud registrada", solicitud.descripcion>> >>]

procesarSolicitud(sols) ==
    IF sols # <<>>
    THEN [solicitudes |-> PopFront(sols),
          salida |-> << <<"Procesando solicitud", Head(sols).descripcion>> >>]
    ELSE [solicitudes |-> sols,
          salida |-> << <<"No hay solicitudes pendientes.">> >>]

\* Variant of consultarSolicitudEnProceso: back() instead of front().
consultarSolicitudEnProcesoUltima(sols) ==
    IF sols # <<>>
    THEN << <<"Solicitud en proceso", sols[Len(sols)].descripcion>> >>
    ELSE << <<"No hay solicitudes en proceso.">> >>

consultarSolicitudEnProceso(sols) ==
    IF sols # <<>>
    THEN << <<"Solicitud en proceso", Head(sols).descripcion>> >>
    ELSE << <<"No hay solicitudes en proceso.">> >>

listarSolicitudesPendientes(sols) ==
    [k \in 1..Len(sols) |-> <<"Solicitud pendiente", sols[k].descripcion>>]

registrarClienteEnEspera(clis, cliente) ==
    [clientesEnEspera |-> Append(clis, cliente),
     salida |-> << <<"Cliente registrado", cliente.nombre>> >>]

\* Variant of atenderCliente: back() and pop_back() instead of front() and
\* pop_front().
atenderClienteUltimo(clis) ==
    IF clis # <<>>
    THEN [clientesEnEspera |-> SubSeq(clis, 1, Len(clis) - 1),
          salida |-> << <<"Atendiendo cliente", clis[Len(clis)].nombre>> >>]
    ELSE [clientesEnEspera |-> clis,
          salida |-> << <<"No hay clientes en espera.">> >>]

atenderCliente(clis) ==
    IF clis # <<>>
    THEN [clientesEnEspera |-> PopFront(clis),
          salida |-> << <<"Atendiendo cliente", Head(clis).nombre>> >>]
    ELSE [clientesEnEspera |-> clis,
          salida |-> << <<"No hay clientes en espera.">> >>]

consultarListaDeEspera(clis) ==
    [k \in 1..Len(clis) |-> <<"Cliente en espera", clis[k].nombre>>]

\* Variant of deshacerAgregar: the added product is not erased.
deshacerAgregarSinBorrar(inv, cambio) ==
    [inventario |-> inv,
     salida |-> << <<"Deshacer: Producto agregado eliminado",
                     cambio.producto.nombre>> >>]

\* The branch of deshacerUltimaAccion for a popped "agregar" entry.
deshacerAgregar(inv, cambio) ==
    LET it == FindIf(inv, cambio.producto.nombre) IN
    IF it # Len(inv) + 1
    THEN [inventario |-> Erase(inv, it),
          salida |-> << <<"Deshacer: Producto agregado eliminado",
                          cambio.producto.nombre>> >>]
    ELSE [inventario |-> inv, salida |-> <<>>]

\* Variant of deshacerEliminar: the removed product is not put back.
deshacerEliminarNoRestaura(inv, cambio) ==
    [inventario |-> inv,
     salida |-> << <<"Deshacer: Producto eliminado restaurado",
                     cambio.producto.nombre>> >>]

\* Variant of deshacerEliminar: push_front instead of push_back.
deshacerEliminarAlFrente(inv, cambio) ==
    [inventario |-> <<cambio.producto>> \o inv,
     salida |-> << <<"Deshacer: Producto eliminado restaurado",
                     cambio.producto.nombre>> >>]

\* The branch of deshacerUltimaAccion for a popped "eliminar" entry.
deshacerEliminar(inv, cambio) ==
    [inventario |-> Append(inv, cambio.producto),
     salida |-> << <<"Deshacer: Producto eliminado restaurado",
                     cambio.producto.nombre>> >>]

\* Variant of deshacerUltimaAccion: nothing is printed on an empty log.
deshacerUltimaAccionCallado(inv, hist) ==
    IF hist # <<>>
    THEN LET cambio == hist[Len(hist)]
             r == IF cambio.tipo = "agregar" THEN deshacerAgregar(inv, cambio)
                  ELSE deshacerEliminar(inv, cambio)
         IN  [inventario |-> r.inventario,
              historialCambios |-> PopBack(hist),
              salida |-> r.salida]
    ELSE [inventario |-> inv, historialCambios |-> hist, salida |-> <<>>]

deshacerUltimaAccion(inv, hist) ==
    IF hist # <<>>
    THEN LET cambio == hist[Len(hist)]
             r == IF cambio.tipo = "agregar" THEN deshacerAgregar(inv, cambio)
                  ELSE IF cambio.tipo = "eliminar" THEN deshacerEliminar(inv, cambio)
                  ELSE [inventario |-> inv, salida |-> <<>>]
         IN  [inventario |-> r.inventario,
              historialCambios |-> PopBack(hist),
              salida |-> r.salida]
    ELSE [inventario |-> inv,
          historialCambios |-> hist,
          salida |-> << <<"No hay cambios para deshacer.">> >>]

\* ------------------------------------------------------------- main loop
NADA == "nada"

Estado ==
    [inventario |-> inventario, solicitudes |-> solicitudes,
     clientesEnEspera |-> clientesEnEspera, historialCambios |-> historialCambios]

EstadoVacio ==
    [inventario |-> <<>>, solicitudes |-> <<>>,
     clientesEnEspera |-> <<>>, historialCambios |-> <<>>]

Init ==
    /\ inventario = <<>>
    /\ solicitudes = <<>>
    /\ clientesEnEspera = <<>>
    /\ historialCambios = <<>>
    /\ opcion = 0
    /\ salida = <<>>
    /\ entrada = NADA
    /\ previo = EstadoVacio
    /\ anterior = "ninguno"
    /\ origen = <<>>
    /\ registradas = <<>>
    /\ procesadas = <<>>
    /\ clientesRegistrados = <<>>
    /\ atendidos = <<>>
    /\ copia = [inventario |-> <<>>, historialCambios |-> <<>>, salida |-> <<>>]

\* The bound of the model on the inputs of a session.
HayCupo ==
    Len(historialCambios) + Len(registradas) + Len(clientesRegistrados) < MaxRegistros

\* The do-while condition: the body runs again unless 13 was selected.
\* Variant of EnCurso: the loop also stops after a selection outside 1..13.
EnCursoSoloValidas == opcion # 13 /\ opcion \notin OpcionesNoValidas

EnCurso == opcion # 13

\* One iteration read option op and input in, and printed out.
Iteracion(op, in, out) ==
    /\ EnCurso
    /\ opcion' = op
    /\ entrada' = in
    /\ salida' = out
    /\ IF op \in {1, 2, 3, 4, 12}
       THEN TRUE   \* the case has run the second ledger's method itself
       ELSE copia' = [copia EXCEPT !.salida = out]
    /\ previo' = Estado
    /\ anterior' = IF Len(historialCambios) > Len(previo.historialCambios)
                   THEN historialCambios[Len(historialCambios)].tipo
                   ELSE "ninguno"
    /\ origen' = IF Len(historialCambios') > Len(historialCambios)
                 THEN Append(origen, op)
                 ELSE IF Len(historialCambios') < Len(historialCambios)
                 THEN SubSeq(origen, 1, Len(origen) - 1)
                 ELSE origen

Case1 ==
    /\ UNCHANGED <<solicitudes, clientesEnEspera, colasHist>>
    /\ HayCupo
    /\ \E producto \in ProductosEntrada :
          LET r == registrarProducto(inventario, historialCambios, producto) IN
          /\ inventario' = r.inventario
          /\ historialCambios' = r.historialCambios
          /\ copia' = registrarProducto(copia.inventario, copia.historialCambios, producto)
          /\ Iteracion(1, producto, r.salida)

Case2 ==
    /\ UNCHANGED <<solicitudes, clientesEnEspera, colasHist>>
    /\ HayCupo
    /\ \E nombre \in Nombres :
          LET r == eliminarProducto(inventario, historialCambios, nombre) IN
          /\ inventario' = r.inventario
          /\ historialCambios' = r.historialCambios
          /\ copia' = eliminarProducto(copia.inventario, copia.historialCambios, nombre)
          /\ Iteracion(2, nombre, r.salida)

Case3 ==
    /\ UNCHANGED <<listas, colasHist>>
    /\ \E nombre \in Nombres :
          /\ copia' = [copia EXCEPT !.salida = consultarProducto(copia.inventario, nombre)]
          /\ Iteracion(3, nombre, consultarProducto(inventario, nombre))

Case4 ==
    LET r == listarProductos(inventario) IN
    /\ UNCHANGED <<solicitudes, clientesEnEspera, historialCambios, colasHist>>
    /\ inventario' = r.inventario
    /\ copia' = [copia EXCEPT !.salida = listarProductosCopia(copia.inventario).salida]
    /\ Iteracion(4, NADA, r.salida)

Case5 ==
    /\ UNCHANGED <<inventario, clientesEnEspera, historialCambios,
                   procesadas, clientesRegistrados, atendidos>>
    /\ HayCupo
    /\ \E d \in Descripciones, i \in IdIndeterminado :
          LET solicitud == [id |-> i, descripcion |-> d]
              r == registrarSolicitud(solicitudes, solicitud) IN
          /\ solicitudes' = r.solicitudes
          /\ registradas' = Append(registradas, solicitud)
          /\ Iteracion(5, d, r.salida)

Case6 ==
    LET r == procesarSolicitud(solicitudes) IN
    /\ UNCHANGED <<inventario, clientesEnEspera, historialCambios,
                   registradas, clientesRegistrados, atendidos>>
    /\ solicitudes' = r.solicitudes
    /\ procesadas' = IF r.salida[1][1] = "Procesando solicitud"
                     THEN Append(procesadas, r.salida[1][2])
                     ELSE procesadas
    /\ Iteracion(6, NADA, r.salida)

Case7 ==
    /\ UNCHANGED <<listas, colasHist>>
    /\ Iteracion(7, NADA, consultarSolicitudEnProceso(solicitudes))

Case8 ==
    /\ UNCHANGED <<listas, colasHist>>
    /\ Iteracion(8, NADA, listarSolicitudesPendientes(solicitudes))

Case9 ==
    /\ UNCHANGED <<inventario, solicitudes, historialCambios,
                   registradas, procesadas, atendidos>>
    /\ HayCupo
    /\ \E n \in NombresCliente, i \in IdIndeterminado :
          LET cliente == [id |-> i, nombre |-> n]
              r == registrarClienteEnEspera(clientesEnEspera, cliente) IN
          /\ clientesEnEspera' = r.clientesEnEspera
          /\ clientesRegistrados' = Append(clientesRegistrados, cliente)
          /\ Iteracion(9, n, r.salida)

Case10 ==
    LET r == atenderCliente(clientesEnEspera) IN
    /\ UNCHANGED <<inventario, solicitudes, historialCambios,
                   registradas, procesadas, clientesRegistrados>>
    /\ clientesEnEspera' = r.clientesEnEspera
    /\ atendidos' = IF r.salida[1][1] = "Atendiendo cliente"
                    THEN Append(atendidos, r.salida[1][2])
                    ELSE atendidos
    /\ Iteracion(10, NADA, r.salida)

Case11 ==
    /\ UNCHANGED <<listas, colasHist>>
    /\ Iteracion(11, NADA, consultarListaDeEspera(clientesEnEspera))

\* Variant of Case12: the undo also drops the request registered last.
Case12TambienSolicitud ==
    LET r == deshacerUltimaAccion(inventario, historialCambios) IN
    /\ UNCHANGED <<clientesEnEspera, colasHist>>
    /\ solicitudes' = IF solicitudes # <<>> THEN PopBack(solicitudes) ELSE solicitudes
    /\ inventario' = r.inventario
    /\ historialCambios' = r.historialCambios
    /\ copia' = deshacerUltimaAccion(copia.inventario, copia.historialCambios)
    /\ Iteracion(12, NADA, r.salida)

Case12 ==
    LET r == deshacerUltimaAccion(inventario, historialCambios) IN
    /\ UNCHANGED <<solicitudes, clientesEnEspera, colasHist>>
    /\ inventario' = r.inventario
    /\ historialCambios' = r.historialCambios
    /\ copia' = deshacerUltimaAccion(copia.inventario, copia.historialCambios)
    /\ Iteracion(12, NADA, r.salida)

Case13 ==
    /\ UNCHANGED <<listas, colasHist>>
    /\ Iteracion(13, NADA, << <<"Saliendo del sistema...">> >>)

CaseDefault ==
    /\ UNCHANGED <<listas, colasHist>>
    /\ \E op \in OpcionesNoValidas :
          Iteracion(op, NADA, << <<"Opcion no valida.">> >>)

Next ==
    \/ Case1
    \/ Case2
    \/ Case3
    \/ Case4
    \/ Case5
    \/ Case6
    \/ Case7
    \/ Case8
    \/ Case9
    \/ Case10
    \/ Case11
    \/ Case12
    \/ Case13
    \/ CaseDefault

Spec == Init /\ [][Next]_vars

\* ======================================================= properties
\* Notions the properties are stated with; none of them is used by the
\* model of the code above.

\* s without its i-th element.
SinElemento(s, i) == SubSeq(s, 1, i - 1) \o SubSeq(s, i + 1, Len(s))

\* How many times x occurs in s.
Veces(s, x) == Cardinality({k \in DOMAIN s : s[k] = x})

\* How many products of s are named n.
ConNombre(s, n) == Cardinality({k \in DOMAIN s : s[k].nombre = n})

\* s is a prefix of t.
EsPrefijo(s, t) == Len(s) <= Len(t) /\ SubSeq(t, 1, Len(s)) = s

\* Name s does not come after name t: ordinal, character by character.
NombreNoMayor(s, t) ==
    \/ EsPrefijo(s, t)
    \/ \E k \in 1..Len(s) :
          /\ k <= Len(t)
          /\ SubSeq(s, 1, k - 1) = SubSeq(t, 1, k - 1)
          /\ s[k] < t[k]

\* The product a printed product line shows.
ProductoDeLinea(l) == [nombre |-> l[2], precio |-> l[3], cantidad |-> l[4]]

\* t is s, or s with one product erased, or s with one product appended.
CambiaALoMasUno(s, t) ==
    \/ t = s
    \/ \E i \in DOMAIN s : t = SinElemento(s, i)
    \/ Len(t) = Len(s) + 1 /\ SubSeq(t, 1, Len(s)) = s

NoHayCambios == << <<"No hay cambios para deshacer.">> >>
NoEncontrado == << <<"Producto no encontrado.">> >>

\* C1: when option 2 has just removed a product named n (a product named n
\* was in the inventory before it) and option 12 is selected next, the undo
\* appends to the end of inventario a product equal in nombre, precio and
\* cantidad to the one erased; the inventory is as long as before the
\* removal, historialCambios is what it was before the removal, and any other
\* product named n is kept beside the restored one.
C1_EliminarYDeshacer ==
    [][ ( /\ opcion = 2
          /\ \E i \in DOMAIN previo.inventario : previo.inventario[i].nombre = entrada
          /\ opcion' = 12 )
        => \E i \in DOMAIN previo.inventario :
              LET quitado == previo.inventario[i] IN
              /\ quitado.nombre = entrada
              /\ inventario = SinElemento(previo.inventario, i)
              /\ inventario' = Append(inventario, quitado)
              /\ Len(inventario') = Len(previo.inventario)
              /\ historialCambios' = previo.historialCambios
              /\ ConNombre(inventario', entrada) = ConNombre(inventario, entrada) + 1
      ]_vars

\* An undo has just followed a successful removal, and the restored product
\* stands beside another product of the same name.
C1_Witness ==
    /\ opcion = 12
    /\ anterior = "eliminar"
    /\ Len(salida) = 1
    /\ salida[1][1] = "Deshacer: Producto eliminado restaurado"
    /\ ConNombre(inventario, salida[1][2]) >= 2
    /\ inventario[Len(inventario)].nombre = salida[1][2]

\* C2: when option 1 has just registered product p and option 12 is selected
\* next, the undo erases exactly one product named p.nombre, so the inventory
\* is as long as before the registration, and historialCambios is what it was
\* before the registration.
C2_RegistrarYDeshacer ==
    [][ (opcion = 1 /\ opcion' = 12)
        => /\ \E i \in DOMAIN inventario :
                 /\ inventario[i].nombre = entrada.nombre
                 /\ inventario' = SinElemento(inventario, i)
           /\ Len(inventario') = Len(previo.inventario)
           /\ historialCambios' = previo.historialCambios
      ]_vars

\* An undo has just followed a registration, with other products in stock
\* and other entries in the log.
C2_Witness ==
    /\ opcion = 12
    /\ anterior = "agregar"
    /\ Len(salida) = 1
    /\ salida[1][1] = "Deshacer: Producto agregado eliminado"
    /\ inventario # <<>>
    /\ historialCambios # <<>>

\* C3: an undo on a non-empty log removes exactly the last entry, keeps the
\* earlier entries and their order, appends nothing, and changes the inventory
\* by at most one product; the log changes otherwise only by option 1 or a
\* successful option 2 appending one entry at its end.
C3_DeshacerLIFO ==
    /\ (opcion = 12 /\ previo.historialCambios # <<>>)
       => /\ historialCambios =
                SubSeq(previo.historialCambios, 1, Len(previo.historialCambios) - 1)
          /\ CambiaALoMasUno(previo.inventario, inventario)
    /\ historialCambios # previo.historialCambios
       => \/ /\ opcion = 12
             /\ previo.historialCambios # <<>>
             /\ historialCambios =
                   SubSeq(previo.historialCambios, 1, Len(previo.historialCambios) - 1)
          \/ /\ opcion \in {1, 2}
             /\ Len(historialCambios) = Len(previo.historialCambios) + 1
             /\ EsPrefijo(previo.historialCambios, historialCambios)
             /\ opcion = 2 => salida = << <<"Producto eliminado", entrada>> >>

\* An undo has just popped one of several different log entries.
C3_Witness ==
    /\ opcion = 12
    /\ Len(previo.historialCambios) >= 2
    /\ previo.historialCambios[1] # previo.historialCambios[Len(previo.historialCambios)]
    /\ inventario # previo.inventario

\* C4: every log entry has tipo "agregar" or "eliminar"; it is "agregar"
\* exactly when option 1 appended it, and then it holds the product
\* registered; it is "eliminar" exactly when a successful option 2 appended
\* it, and then it holds the product that removal erased.  An option 2 that
\* finds nothing, and option 12, append no entry.
C4_TipoDeCambio ==
    /\ Len(origen) = Len(historialCambios)
    /\ \A k \in DOMAIN historialCambios :
          /\ historialCambios[k].tipo \in {"agregar", "eliminar"}
          /\ historialCambios[k].tipo = "agregar" <=> origen[k] = 1
          /\ historialCambios[k].tipo = "eliminar" <=> origen[k] = 2
    /\ Len(historialCambios) > Len(previo.historialCambios)
       => LET e == historialCambios[Len(historialCambios)] IN
          /\ EsPrefijo(previo.historialCambios, historialCambios)
          /\ opcion \in {1, 2}
          /\ opcion = 1 => e.producto = entrada
          /\ opcion = 2 =>
                /\ e.producto.nombre = entrada
                /\ \E i \in DOMAIN previo.inventario :
                      /\ previo.inventario[i] = e.producto
                      /\ inventario = SinElemento(previo.inventario, i)
    /\ ( /\ opcion = 2
         /\ \A i \in DOMAIN previo.inventario : previo.inventario[i].nombre # entrada )
       => historialCambios = previo.historialCambios
    /\ opcion = 12 => EsPrefijo(historialCambios, previo.historialCambios)

\* A successful removal has just appended an "eliminar" entry to a log that
\* also holds an "agregar" entry.
C4_Witness ==
    /\ opcion = 2
    /\ Len(historialCambios) > Len(previo.historialCambios)
    /\ historialCambios[Len(historialCambios)].tipo = "eliminar"
    /\ \E k \in DOMAIN historialCambios : historialCambios[k].tipo = "agregar"

\* C5: option 12 on an empty log prints "No hay cambios para deshacer." and
\* leaves inventario, historialCambios, solicitudes and clientesEnEspera as
\* they were.
C5_DeshacerVacio ==
    (opcion = 12 /\ previo.historialCambios = <<>>)
    => /\ salida = NoHayCambios
       /\ inventario = previo.inventario
       /\ historialCambios = previo.historialCambios
       /\ solicitudes = previo.solicitudes
       /\ clientesEnEspera = previo.clientesEnEspera

\* An undo has just run on an empty log while both queues held entries.
C5_Witness ==
    /\ opcion = 12
    /\ previo.historialCambios = <<>>
    /\ solicitudes # <<>>
    /\ clientesEnEspera # <<>>

\* C6: option 2 with a name no product of the inventory has prints "Producto
\* no encontrado." and leaves the inventory (contents, order, length) and the
\* log as they were.
C6_EliminarNoEncontrado ==
    ( /\ opcion = 2
      /\ \A i \in DOMAIN previo.inventario : previo.inventario[i].nombre # entrada )
    => /\ salida = NoEncontrado
       /\ inventario = previo.inventario
       /\ Len(inventario) = Len(previo.inventario)
       /\ historialCambios = previo.historialCambios

\* A removal has just missed in a non-empty inventory.
C6_Witness ==
    /\ opcion = 2
    /\ salida = NoEncontrado
    /\ inventario # <<>>
    /\ historialCambios # <<>>

\* C7: option 4 prints one line per product of the inventory, each product
\* exactly as often as the inventory holds it, in non-decreasing order of
\* nombre.
C7_ListarOrdenado ==
    opcion = 4
    => /\ Len(salida) = Len(previo.inventario)
       /\ \A k \in DOMAIN salida : salida[k][1] = "Producto"
       /\ \A p \in ProductosEntrada :
             Veces([k \in DOMAIN salida |-> ProductoDeLinea(salida[k])], p)
                = Veces(previo.inventario, p)
       /\ \A k \in 1..(Len(salida) - 1) :
             NombreNoMayor(salida[k][2], salida[k + 1][2])

\* A listing has just printed three products that were stored out of order.
C7_Witness ==
    /\ opcion = 4
    /\ Len(salida) = 3
    /\ salida[1][2] # salida[3][2]
    /\ inventario # previo.inventario

\* C8: option 6 on an empty queue prints "No hay solicitudes pendientes." and
\* changes none of the lists; on a non-empty queue it prints the description
\* of the front request and removes that request only: the queue is one
\* shorter and the rest keeps its order.
C8_ProcesarSolicitud ==
    opcion = 6
    => /\ previo.solicitudes = <<>>
          => /\ salida = << <<"No hay solicitudes pendientes.">> >>
             /\ Estado = previo
       /\ previo.solicitudes # <<>>
          => /\ salida = << <<"Procesando solicitud",
                              previo.solicitudes[1].descripcion>> >>
             /\ solicitudes = Tail(previo.solicitudes)
             /\ Len(solicitudes) = Len(previo.solicitudes) - 1
             /\ inventario = previo.inventario
             /\ historialCambios = previo.historialCambios
             /\ clientesEnEspera = previo.clientesEnEspera

\* A request has just been processed out of a queue of different requests.
C8_Witness ==
    /\ opcion = 6
    /\ Len(previo.solicitudes) >= 2
    /\ previo.solicitudes[1] # previo.solicitudes[Len(previo.solicitudes)]

\* C9: the descriptions reported by the successive runs of option 6 are those
\* of the requests registered, in the order of registration; the requests not
\* yet reported are exactly the queue, so none is reported twice.
C9_SolicitudesFIFO ==
    /\ Len(procesadas) <= Len(registradas)
    /\ \A k \in DOMAIN procesadas : procesadas[k] = registradas[k].descripcion
    /\ solicitudes = SubSeq(registradas, Len(procesadas) + 1, Len(registradas))

\* Two different requests were reported, a third registered in between is
\* still queued.
C9_Witness ==
    /\ Len(procesadas) = 2
    /\ procesadas[1] # procesadas[2]
    /\ solicitudes # <<>>

\* C10: option 10 on an empty waiting list prints "No hay clientes en
\* espera." and changes none of the lists; otherwise it prints the name of the
\* front client and removes that client; the names reported by its successive
\* runs are those of the clients registered, in the order of registration.
C10_ClientesFIFO ==
    /\ opcion = 10
       => /\ previo.clientesEnEspera = <<>>
             => /\ salida = << <<"No hay clientes en espera.">> >>
                /\ Estado = previo
          /\ previo.clientesEnEspera # <<>>
             => /\ salida = << <<"Atendiendo cliente",
                                 previo.clientesEnEspera[1].nombre>> >>
                /\ clientesEnEspera = Tail(previo.clientesEnEspera)
    /\ Len(atendidos) <= Len(clientesRegistrados)
    /\ \A k \in DOMAIN atendidos : atendidos[k] = clientesRegistrados[k].nombre
    /\ clientesEnEspera =
          SubSeq(clientesRegistrados, Len(atendidos) + 1, Len(clientesRegistrados))

\* Two different clients were attended, the second just now, and a third is
\* still waiting.
C10_Witness ==
    /\ opcion = 10
    /\ Len(atendidos) = 2
    /\ atendidos[1] # atendidos[2]
    /\ clientesEnEspera # <<>>


\* C11: when option 1 has just registered product p and option 12 is selected
\* next, the inventory holds every product (nombre, precio, cantidad) exactly
\* as often as before the registration: the product erased is the one added.
C11_DeshacerInvierteAgregar ==
    [][ (opcion = 1 /\ opcion' = 12)
        => \A p \in ProductosEntrada :
              Veces(inventario', p) = Veces(previo.inventario, p)
      ]_vars


\* How many entries of log h have tipo t and a product named n.
Entradas(h, t, n) ==
    Cardinality({k \in DOMAIN h : h[k].tipo = t /\ h[k].producto.nombre = n})

\* C12: for every name n the inventory holds as many products named n as the
\* log holds "agregar" entries for n less "eliminar" entries for n; so the
\* inventory is as long as the number of "agregar" entries less the number of
\* "eliminar" entries, which is never negative.
C12_InventarioSegunHistorial ==
    /\ \A n \in Nombres :
          ConNombre(inventario, n) =
             Entradas(historialCambios, "agregar", n)
                - Entradas(historialCambios, "eliminar", n)
    /\ LET agregados == Cardinality({k \in DOMAIN historialCambios :
                                       historialCambios[k].tipo = "agregar"})
           eliminados == Cardinality({k \in DOMAIN historialCambios :
                                        historialCambios[k].tipo = "eliminar"})
       IN  /\ Len(inventario) = agregados - eliminados
           /\ agregados - eliminados >= 0

\* The log holds three entries, one of them a removal, and a product is left.
C12_Witness ==
    /\ Len(historialCambios) = 3
    /\ \E k \in DOMAIN historialCambios : historialCambios[k].tipo = "eliminar"
    /\ inventario # <<>>

\* C13: whenever the last log entry is an "agregar" for name n, the inventory
\* holds a product named n; so an undo on a non-empty log never takes the
\* branch that finds no match: it makes the inventory one shorter when it pops
\* an "agregar" and one longer when it pops an "eliminar".
C13_DeshacerSiempreEncuentra ==
    /\ ( /\ historialCambios # <<>>
         /\ historialCambios[Len(historialCambios)].tipo = "agregar" )
       => ConNombre(inventario,
                    historialCambios[Len(historialCambios)].producto.nombre) >= 1
    /\ (opcion = 12 /\ previo.historialCambios # <<>>)
       => LET cambio == previo.historialCambios[Len(previo.historialCambios)] IN
          /\ cambio.tipo = "agregar"
             => /\ Len(inventario) = Len(previo.inventario) - 1
                /\ salida = << <<"Deshacer: Producto agregado eliminado",
                                 cambio.producto.nombre>> >>
          /\ cambio.tipo = "eliminar"
             => Len(inventario) = Len(previo.inventario) + 1

\* An undo has just popped an "agregar" entry for a name that was not the
\* name of the last product of the inventory.
C13_Witness ==
    /\ opcion = 12
    /\ previo.historialCambios # <<>>
    /\ previo.historialCambios[Len(previo.historialCambios)].tipo = "agregar"
    /\ Len(previo.inventario) >= 2
    /\ previo.inventario[Len(previo.inventario)].nombre
          # previo.historialCambios[Len(previo.historialCambios)].producto.nombre


\* C15: option 1 always succeeds, also when the inventory already holds a
\* product of the same nombre: the product is appended to the end of the
\* inventory and an "agregar" entry holding it to the end of the log; both
\* grow by exactly one and what they held before is unchanged.
C15_RegistrarSiempre ==
    opcion = 1
    => /\ inventario = Append(previo.inventario, entrada)
       /\ historialCambios =
             Append(previo.historialCambios,
                    [tipo |-> "agregar", producto |-> entrada])
       /\ Len(inventario) = Len(previo.inventario) + 1
       /\ Len(historialCambios) = Len(previo.historialCambios) + 1
       /\ EsPrefijo(previo.inventario, inventario)
       /\ EsPrefijo(previo.historialCambios, historialCambios)
       /\ salida = << <<"Producto agregado", entrada.nombre>> >>

\* A product has just been registered under a nombre the inventory already
\* held.
C15_Witness ==
    /\ opcion = 1
    /\ ConNombre(previo.inventario, entrada.nombre) >= 1
    /\ Len(inventario) = Len(previo.inventario) + 1

\* C16: option 2 with a nombre that some product has erases the first product
\* of that nombre, appends an "eliminar" entry holding that same product to the
\* log, and leaves the other products and their order unchanged.
C16_EliminarPrimero ==
    ( /\ opcion = 2
      /\ \E i \in DOMAIN previo.inventario : previo.inventario[i].nombre = entrada )
    => \E i \in DOMAIN previo.inventario :
          /\ previo.inventario[i].nombre = entrada
          /\ \A j \in 1..(i - 1) : previo.inventario[j].nombre # entrada
          /\ inventario = SinElemento(previo.inventario, i)
          /\ historialCambios =
                Append(previo.historialCambios,
                       [tipo |-> "eliminar", producto |-> previo.inventario[i]])
          /\ salida = << <<"Producto eliminado", entrada>> >>

\* A removal has just chosen between two different products of the same
\* nombre.
C16_Witness ==
    /\ opcion = 2
    /\ Len(historialCambios) > Len(previo.historialCambios)
    /\ \E i, j \in DOMAIN previo.inventario :
          /\ i < j
          /\ previo.inventario[i].nombre = entrada
          /\ previo.inventario[j].nombre = entrada
          /\ previo.inventario[i] # previo.inventario[j]


\* The lists after n calls of deshacerUltimaAccion, and whether one of the
\* calls printed "No hay cambios para deshacer.".
RECURSIVE DeshacerVeces(_, _, _)
DeshacerVeces(inv, hist, n) ==
    IF n = 0
    THEN [inventario |-> inv, historialCambios |-> hist, sinCambios |-> FALSE]
    ELSE LET r == deshacerUltimaAccion(inv, hist)
             s == DeshacerVeces(r.inventario, r.historialCambios, n - 1)
         IN  [inventario |-> s.inventario,
              historialCambios |-> s.historialCambios,
              sinCambios |-> (r.salida = NoHayCambios) \/ s.sinCambios]

\* C17: from every reachable state, as many undos as the log has entries
\* empty the log without any of them printing "No hay cambios para
\* deshacer.", the next undo prints it, and the inventory is then empty; and
\* in every reachable state an empty log goes with an empty inventory.
C17_DeshacerTodo ==
    /\ LET r == DeshacerVeces(inventario, historialCambios, Len(historialCambios))
       IN  /\ ~r.sinCambios
           /\ r.historialCambios = <<>>
           /\ r.inventario = <<>>
           /\ deshacerUltimaAccion(r.inventario, r.historialCambios).salida
                 = NoHayCambios
    /\ historialCambios = <<>> => inventario = <<>>
    /\ (opcion = 12 /\ salida = NoHayCambios) => inventario = <<>>

\* Three products are in stock behind three log entries, stored in an order
\* a listing has changed.
C17_Witness ==
    /\ Len(historialCambios) = 3
    /\ Len(inventario) = 3
    /\ \E k \in DOMAIN inventario : inventario[k] # historialCambios[k].producto


\* The products of s named n, in their order in s.
LosDeNombre(s, n) ==
    LET EsDeNombre(p) == p.nombre = n IN SelectSeq(s, EsDeNombre)

\* C18: option 4 sorts the stored inventory: afterwards the stored list holds
\* the products it held before, each as often, in non-decreasing order of
\* nombre, products of the same nombre in their previous relative order; the
\* log and the two queues are unchanged.
C18_ListarOrdenaEnSitio ==
    opcion = 4
    => /\ Len(inventario) = Len(previo.inventario)
       /\ \A p \in ProductosEntrada :
             Veces(inventario, p) = Veces(previo.inventario, p)
       /\ \A k \in 1..(Len(inventario) - 1) :
             NombreNoMayor(inventario[k].nombre, inventario[k + 1].nombre)
       /\ \A n \in Nombres :
             LosDeNombre(inventario, n) = LosDeNombre(previo.inventario, n)
       /\ historialCambios = previo.historialCambios
       /\ solicitudes = previo.solicitudes
       /\ clientesEnEspera = previo.clientesEnEspera

\* A listing has just reordered an inventory that holds two different
\* products of one nombre.
C18_Witness ==
    /\ opcion = 4
    /\ inventario # previo.inventario
    /\ \E i, j \in DOMAIN inventario :
          /\ i < j
          /\ inventario[i].nombre = inventario[j].nombre
          /\ inventario[i] # inventario[j]


\* C20: option 12 leaves the two queues as they were, whatever was registered,
\* processed or attended before; options 5, 6, 9 and 10 leave the inventory
\* and the log as they were.
C20_InventarioYColasIndependientes ==
    /\ opcion = 12
       => /\ solicitudes = previo.solicitudes
          /\ clientesEnEspera = previo.clientesEnEspera
    /\ opcion \in {5, 6, 9, 10}
       => /\ inventario = previo.inventario
          /\ historialCambios = previo.historialCambios

\* An undo has just changed the inventory while a request and a client were
\* queued.
C20_Witness ==
    /\ opcion = 12
    /\ previo.historialCambios # <<>>
    /\ inventario # previo.inventario
    /\ solicitudes # <<>>
    /\ clientesEnEspera # <<>>


\* C19: given the same inputs, the ledger that sorts its stored list when
\* listing and the ledger that sorts a copy print the same lines for every
\* listing and every query, keep the same log (so every removal erases the
\* same product in both), and hold the same products, each as often (so every
\* undo erases or restores the same product in both).
C19_OrdenarEnSitioNoSeObserva ==
    /\ copia.salida = salida
    /\ copia.historialCambios = historialCambios
    /\ \A p \in ProductosEntrada :
          Veces(copia.inventario, p) = Veces(inventario, p)
    /\ \A n \in Nombres :
          consultarProducto(copia.inventario, n) = consultarProducto(inventario, n)

\* An undo has just erased a product from two ledgers that store the remaining
\* products in different orders.
C19_Witness ==
    /\ opcion = 12
    /\ Len(inventario) < Len(previo.inventario)
    /\ copia.inventario # inventario


\* C21: option 3 prints the fields of the first product of the given nombre,
\* or "Producto no encontrado."; option 7 prints the description of the front
\* request, or "No hay solicitudes en proceso."; options 3, 7, 8 and 11 leave
\* the inventory, the log and the two queues as they were, so that processing
\* a request right after option 7 reports the request option 7 showed.
C21_ConsultasSoloLeen ==
    /\ opcion \in {3, 7, 8, 11} => Estado = previo
    /\ opcion = 3
       => IF \E i \in DOMAIN previo.inventario : previo.inventario[i].nombre = entrada
          THEN \E i \in DOMAIN previo.inventario :
                  /\ previo.inventario[i].nombre = entrada
                  /\ \A j \in 1..(i - 1) : previo.inventario[j].nombre # entrada
                  /\ salida = << <<"Producto", previo.inventario[i].nombre,
                                   previo.inventario[i].precio,
                                   previo.inventario[i].cantidad>> >>
          ELSE salida = NoEncontrado
    /\ opcion = 7
       => IF previo.solicitudes = <<>>
          THEN salida = << <<"No hay solicitudes en proceso.">> >>
          ELSE /\ salida = << <<"Solicitud en proceso",
                                previo.solicitudes[1].descripcion>> >>
               /\ procesarSolicitud(solicitudes).salida =
                     << <<"Procesando solicitud", salida[1][2]>> >>

\* Option 7 has just shown the front of a queue of two requests with
\* different descriptions.
C21_Witness ==
    /\ opcion = 7
    /\ Len(solicitudes) >= 2
    /\ solicitudes[1].descripcion # solicitudes[Len(solicitudes)].descripcion
    /\ salida = << <<"Solicitud en proceso", solicitudes[1].descripcion>> >>


\* The messages of the not-found and empty outcomes.
SinResultado ==
    { << <<"Producto no encontrado.">> >>,
      << <<"No hay solicitudes pendientes.">> >>,
      << <<"No hay solicitudes en proceso.">> >>,
      << <<"No hay clientes en espera.">> >>,
      << <<"No hay cambios para deshacer.">> >> }

\* C22: the loop takes no further iteration exactly when option 13 was
\* selected; after any other selection every selection can be read again
\* (13, one outside 1..13, one of the menu); a selection outside 1..13 prints
\* "Opcion no valida." and leaves the four lists as they were; an iteration
\* that printed a not-found or empty message is never the last one.
C22_SesionTerminaCon13 ==
    /\ [][opcion # 13]_vars
    /\ [](/\ opcion # 13
              => ENABLED Case13 /\ ENABLED CaseDefault /\ ENABLED Case6
          /\ opcion = 13
              => salida = << <<"Saliendo del sistema...">> >> /\ Estado = previo
          /\ opcion \in OpcionesNoValidas
              => /\ salida = << <<"Opcion no valida.">> >>
                 /\ Estado = previo
          /\ salida \in SinResultado => opcion # 13 /\ ENABLED Case13)

\* A selection outside 1..13 has just been answered while the inventory, the
\* log and both queues hold something.
C22_Witness ==
    /\ opcion \in OpcionesNoValidas
    /\ salida = << <<"Opcion no valida.">> >>
    /\ inventario # <<>>
    /\ solicitudes # <<>>
    /\ clientesEnEspera # <<>>
    /\ ENABLED Case13

====
